---- MODULE Spec2Model ----
(***************************************************************************)
(* LEDGER-X: the FastAPI gateway of src/main.py as a state machine.        *)
(*                                                                         *)
(* State: the Credential Store (users), the Ledger Store (entries and      *)
(* budgets), the UTC clock, the bearer tokens that clients hold, the       *)
(* register requests in flight, and the last request with its response.    *)
(* One action per route of main.py.  crud.py, models.py and schemas.py are *)
(* not part of src/; the crud_* operators follow spec.md sections 3 and 4. *)
(*                                                                         *)
(* Time is counted in whole minutes.  Amounts are whole currency units.    *)
(***************************************************************************)
EXTENDS Integers, Sequences, FiniteSets, TLC

VARIABLES
    clock,      \* datetime.utcnow(), in minutes
    users,      \* rows of the users table: [id, username, hashed_password]
    entries,    \* rows of the ledger table: [id, user_id, amount, category, day, month, year]
    budgets,    \* rows of the budgets table: [id, user_id, month, year, limit]
    held,       \* per client: the access token it stores, and for which user row it was issued
    pending,    \* register requests between their existence check and their insert
    last        \* the last request and its response

vars == <<clock, users, entries, budgets, held, pending, last>>

(***************************************************************************)
(* Program constants                                                       *)
(***************************************************************************)
SECRET_KEY == "your_secret_key_change_me_in_production"
ALGORITHM == "HS256"
ACCESS_TOKEN_EXPIRE_MINUTES == 30
DEFAULT_EXPIRE_MINUTES == 15

(***************************************************************************)
(* Bounds and input sets                                                   *)
(***************************************************************************)
MaxClock == 61          \* Tick stops here
MaxEntries == 2         \* POST /ledger/ stops at this many rows
MaxBudgets == 1         \* POST /api/budget stops at this many rows
MaxPending == 2         \* register requests in flight at once

Usernames == {"alice", "bob"}
Passwords == {"pw1", "pw2"}
Clients == {"c1"}
Categories == {"food", "rent"}

\* The clock advances by a whole token lifetime, or by one minute more.
TickSteps == {ACCESS_TOKEN_EXPIRE_MINUTES, ACCESS_TOKEN_EXPIRE_MINUTES + 1}

\* FinanceCreate bodies: the two of spec.md section 8, and one of another
\* category, day, month and year.
EntryData ==
    { [amount |-> 100, category |-> "food", day |-> 5,  month |-> 1, year |-> 2024],
      [amount |-> -20, category |-> "food", day |-> 10, month |-> 1, year |-> 2024],
      [amount |-> -50, category |-> "rent", day |-> 7,  month |-> 2, year |-> 2025] }

\* (month, year) queries: the month of the first two bodies, the same month of
\* another year, another month of the same year.
Periods == { <<1, 2024>>, <<2, 2024>>, <<1, 2025>> }
Years == { 2024, 2025 }
BudgetPeriods == { <<1, 2024>>, <<2, 2024>> }
Limits == { 500 }
\* GET /ledger/?category=: no filter, or a category.
CategoryFilters == {"<none>", "food"}

\* PUT /ledger/{id} bodies: one of the same month as the first two, one of another.
UpdateData ==
    { [amount |-> -20, category |-> "food", day |-> 10, month |-> 1, year |-> 2024],
      [amount |-> -50, category |-> "rent", day |-> 7,  month |-> 2, year |-> 2025] }

(***************************************************************************)
(* Password hasher (passlib CryptContext, bcrypt)                          *)
(***************************************************************************)
pwd_hash(password) == <<"$2b$", password>>

pwd_verify(password, hashed) == hashed = pwd_hash(password)

(***************************************************************************)
(* Tokens (jose.jwt, HS256)                                                *)
(* A token string is well formed or not; a well formed one carries the     *)
(* claims sub and exp and a signature over them under some key.            *)
(***************************************************************************)
NoSub == "<none>"

Sign(sub, exp, key) == <<ALGORITHM, key, sub, exp>>

jwt_encode(sub, exp, key) ==
    [wf |-> TRUE, sub |-> sub, exp |-> exp, sig |-> Sign(sub, exp, key)]

Malformed == [wf |-> FALSE, sub |-> NoSub, exp |-> 0, sig |-> <<>>]

\* jwt.decode with verify_exp switched off.
jwt_decode_noexp(token, key, now) ==
    IF ~token.wf THEN [ok |-> FALSE, sub |-> NoSub]
    ELSE IF token.sig # Sign(token.sub, token.exp, key) THEN [ok |-> FALSE, sub |-> NoSub]
    ELSE [ok |-> TRUE, sub |-> token.sub]

\* jwt.decode(token, SECRET_KEY, algorithms=[ALGORITHM]): the payload, or JWTError
\* for a malformed token, a signature that does not verify, or exp < now.
jwt_decode(token, key, now) ==
    IF ~token.wf THEN [ok |-> FALSE, sub |-> NoSub]
    ELSE IF token.sig # Sign(token.sub, token.exp, key) THEN [ok |-> FALSE, sub |-> NoSub]
    ELSE IF token.exp < now THEN [ok |-> FALSE, sub |-> NoSub]
    ELSE [ok |-> TRUE, sub |-> token.sub]

\* create_access_token taking its default branch whatever expires_delta is.
create_access_token15(sub, expires_delta, now) ==
    jwt_encode(sub, now + DEFAULT_EXPIRE_MINUTES, SECRET_KEY)

\* expires_delta = 0 stands for "not given" (a zero timedelta is falsy as well).
create_access_token(sub, expires_delta, now) ==
    LET expire == IF expires_delta # 0 THEN now + expires_delta
                  ELSE now + DEFAULT_EXPIRE_MINUTES
    IN  jwt_encode(sub, expire, SECRET_KEY)

(***************************************************************************)
(* crud.py and models.py (not in src/): the persistence operations as      *)
(* spec.md sections 3, 4.2, 4.3 and 4.4 describe them.                     *)
(***************************************************************************)
NoUser == [id |-> 0, username |-> "", hashed_password |-> <<>>]

MaxId(rows) == IF rows = {} THEN 0 ELSE CHOOSE i \in {r.id : r \in rows} : \A r \in rows : r.id <= i

\* db.query(User).filter(User.username == username).first()
get_user_by_username(us, username) ==
    IF \E u \in us : u.username = username
    THEN CHOOSE u \in us : u.username = username /\ \A v \in us : v.username = username => u.id <= v.id
    ELSE NoUser

\* The INSERT of create_user without the unique index on users.username.
insert_user_nonunique(us, username, hashed) ==
    [ok |-> TRUE,
     users |-> us \cup {[id |-> MaxId(us) + 1, username |-> username, hashed_password |-> hashed]}]

\* The INSERT of create_user: users.username is unique (spec.md section 3), so the
\* database refuses a second row with the same username (IntegrityError).
insert_user(us, username, hashed) ==
    IF \E u \in us : u.username = username
    THEN [ok |-> FALSE, users |-> us]
    ELSE [ok |-> TRUE,
          users |-> us \cup {[id |-> MaxId(us) + 1, username |-> username, hashed_password |-> hashed]}]

\* crud.create_user: stores a one-way hash of the password, never the plaintext.
create_user(us, username, password) == insert_user(us, username, pwd_hash(password))

NewEntry(es, data, user_id) ==
    [id |-> MaxId(es) + 1, user_id |-> user_id, amount |-> data.amount,
     category |-> data.category, day |-> data.day, month |-> data.month, year |-> data.year]

crud_create(es, data, user_id) == es \cup {NewEntry(es, data, user_id)}

crud_get(es, user_id, category) ==
    {e \in es : e.user_id = user_id /\ (category = "<none>" \/ e.category = category)}

\* The row with that id for that user, if any.
OwnRow(es, id, user_id) == {e \in es : e.id = id /\ e.user_id = user_id}

crud_update(es, id, data, user_id) ==
    IF OwnRow(es, id, user_id) = {} THEN [found |-> FALSE, entries |-> es]
    ELSE [found |-> TRUE,
          entries |-> (es \ OwnRow(es, id, user_id)) \cup
                      {[id |-> id, user_id |-> user_id, amount |-> data.amount,
                        category |-> data.category, day |-> data.day,
                        month |-> data.month, year |-> data.year]}]

crud_delete(es, id, user_id) ==
    IF OwnRow(es, id, user_id) = {} THEN [found |-> FALSE, entries |-> es]
    ELSE [found |-> TRUE, entries |-> es \ OwnRow(es, id, user_id)]

InMonth(es, month, year, user_id) ==
    {e \in es : e.user_id = user_id /\ e.month = month /\ e.year = year}

\* A positive amount is income, a negative one an expense of its absolute value.
Income(e) == IF e.amount > 0 THEN e.amount ELSE 0

Expense(e) == IF e.amount < 0 THEN 0 - e.amount ELSE 0

RECURSIVE SumIncome(_)
SumIncome(rows) ==
    IF rows = {} THEN 0
    ELSE LET r == CHOOSE x \in rows : TRUE
         IN  Income(r) + SumIncome(rows \ {r})

RECURSIVE SumExpense(_)
SumExpense(rows) ==
    IF rows = {} THEN 0
    ELSE LET r == CHOOSE x \in rows : TRUE
         IN  Expense(r) + SumExpense(rows \ {r})

crud_get_monthly_summary(es, month, year, user_id) ==
    LET rows == InMonth(es, month, year, user_id)
        income == SumIncome(rows)
        expense == SumExpense(rows)
    IN  [income |-> income, expense |-> expense, net |-> income - expense]

crud_get_category_expenses(es, month, year, user_id) ==
    LET rows == InMonth(es, month, year, user_id)
    IN  { <<c, SumExpense({e \in rows : e.category = c})>> :
            c \in {e.category : e \in {x \in rows : x.amount < 0}} }

crud_get_daily_spending(es, month, year, user_id) ==
    LET rows == InMonth(es, month, year, user_id)
    IN  { <<d, SumExpense({e \in rows : e.day = d})>> :
            d \in {e.day : e \in {x \in rows : x.amount < 0}} }

\* Twelve buckets, zero-filled.
crud_get_yearly_expenses(es, year, user_id) ==
    [m \in 1..12 |-> SumExpense({e \in es : e.user_id = user_id /\ e.year = year /\ e.month = m})]

OwnBudget(bs, month, year, user_id) ==
    {b \in bs : b.user_id = user_id /\ b.month = month /\ b.year = year}

\* One budget per (user, month, year): a second create replaces the limit.
crud_create_budget(bs, budget, user_id) ==
    LET old == OwnBudget(bs, budget.month, budget.year, user_id)
        id == IF old = {} THEN MaxId(bs) + 1 ELSE (CHOOSE b \in old : TRUE).id
    IN  (bs \ old) \cup {[id |-> id, user_id |-> user_id, month |-> budget.month,
                          year |-> budget.year, limit |-> budget.limit]}

crud_get_budget(bs, month, year, user_id) == OwnBudget(bs, month, year, user_id)

(***************************************************************************)
(* Requests.  A request carries an Authorization header or none.  iss is   *)
(* bookkeeping, not program state: whether login issued the token, for     *)
(* which users row (uid), when (iat), and whether that row has since been  *)
(* dropped (stale).                                                        *)
(***************************************************************************)
NoIss == [issued |-> FALSE, uid |-> 0, stale |-> FALSE, iat |-> 0]

NoHeld == [has |-> FALSE, token |-> Malformed, iss |-> NoIss]

NoHeader == [hdr |-> [present |-> FALSE, token |-> Malformed], iss |-> NoIss]

Bearer(token) == [hdr |-> [present |-> TRUE, token |-> token], iss |-> NoIss]

FromClient(c) == [hdr |-> [present |-> TRUE, token |-> held[c].token], iss |-> held[c].iss]

\* A held token with its payload altered and its signature kept.
Tampered(t) ==
    { [t EXCEPT !.sub = u] : u \in Usernames \ {t.sub} } \cup
    { [t EXCEPT !.exp = t.exp + ACCESS_TOKEN_EXPIRE_MINUTES] }

\* What a client that holds tokens can send.
Honest(cs) == { FromClient(c) : c \in {x \in cs : held[x].has} } \cup {NoHeader}

\* ... and what anybody can send: tampered tokens, tokens signed under another
\* key, a string that is no token, and a token of the right key without sub.
Hostile(cs) ==
    { Bearer(t) : t \in UNION { Tampered(held[c].token) : c \in {x \in cs : held[x].has} } } \cup
    { Bearer(jwt_encode(u, clock + ACCESS_TOKEN_EXPIRE_MINUTES, "attacker_key")) : u \in Usernames } \cup
    { Bearer(Malformed),
      Bearer(jwt_encode(NoSub, clock + ACCESS_TOKEN_EXPIRE_MINUTES, SECRET_KEY)) }

NoArg == <<>>

\* user is current_user.id (0 when no handler ran), owners the owners of the rows
\* the request returned or changed.
Response(op, status, cred, user, owners, arg, body) ==
    [op |-> op, status |-> status, hdr |-> cred.hdr, now |-> clock, iss |-> cred.iss,
     user |-> user, owners |-> owners, arg |-> arg, body |-> body]

NoRequest == Response("none", 0, NoHeader, 0, {}, NoArg, "")

(***************************************************************************)
(* Authentication: oauth2_scheme and get_current_user                      *)
(***************************************************************************)
Unauthenticated(detail) == [ok |-> FALSE, user |-> NoUser, detail |-> detail]

get_current_user(hdr, now, us) ==
    IF ~hdr.present THEN Unauthenticated("Not authenticated")
    ELSE LET payload == jwt_decode(hdr.token, SECRET_KEY, now)
         IN  IF ~payload.ok THEN Unauthenticated("Could not validate credentials")
             ELSE IF payload.sub = NoSub THEN Unauthenticated("Could not validate credentials")
             ELSE LET user == get_user_by_username(us, payload.sub)
                  IN  IF user = NoUser THEN Unauthenticated("Could not validate credentials")
                      ELSE [ok |-> TRUE, user |-> user, detail |-> ""]

\* The 401 of a protected route: the handler does not run.
Reject(op, cred, auth, arg) ==
    /\ last' = Response(op, 401, cred, 0, {}, arg, auth.detail)
    /\ UNCHANGED <<clock, users, entries, budgets, held, pending>>

(***************************************************************************)
(* POST /register                                                          *)
(***************************************************************************)
\* register without its existence check.
register_nocheck(us, username, password) ==
    LET r == create_user(us, username, password)
    IN  IF r.ok THEN [status |-> 200, users |-> r.users, body |-> username]
        ELSE [status |-> 500, users |-> us, body |-> "Internal Server Error"]

register(us, username, password) ==
    IF get_user_by_username(us, username) # NoUser
    THEN [status |-> 400, users |-> us, body |-> "Username already registered"]
    ELSE LET r == create_user(us, username, password)
         IN  IF r.ok THEN [status |-> 200, users |-> r.users, body |-> username]
             ELSE [status |-> 500, users |-> us, body |-> "Internal Server Error"]

Register(u, p) ==
    LET r == register(users, u, p)
    IN  /\ users' = r.users
        /\ last' = Response("register", r.status, NoHeader, 0, {}, <<u, p>>, r.body)
        /\ UNCHANGED <<clock, entries, budgets, held, pending>>

\* The same handler as two steps of one request, for requests that overlap:
\* the existence check (line 82 to 84), then the insert (line 85).
RegisterCheck(rid, u, p) ==
    /\ Cardinality(pending) < MaxPending
    /\ \A r \in pending : r.rid # rid
    /\ IF get_user_by_username(users, u) # NoUser
       THEN /\ last' = Response("register", 400, NoHeader, 0, {}, <<u, p>>,
                                "Username already registered")
            /\ UNCHANGED pending
       ELSE /\ pending' = pending \cup {[rid |-> rid, username |-> u, password |-> p]}
            /\ UNCHANGED last
    /\ UNCHANGED <<clock, users, entries, budgets, held>>

RegisterInsert(r) ==
    LET c == create_user(users, r.username, r.password)
    IN  /\ pending' = pending \ {r}
        /\ users' = c.users
        /\ last' = Response("register", IF c.ok THEN 200 ELSE 500, NoHeader, 0, {}, <<r.username, r.password>>,
                            IF c.ok THEN r.username ELSE "Internal Server Error")
        /\ UNCHANGED <<clock, entries, budgets, held>>

(***************************************************************************)
(* POST /token                                                             *)
(***************************************************************************)
NoLogin == [status |-> 401, body |-> "Incorrect username or password"]

Issue(user, now) ==
    [status |-> 200,
     body |-> [access_token |-> create_access_token(user.username, ACCESS_TOKEN_EXPIRE_MINUTES, now),
               token_type |-> "bearer"]]

\* login without the password check.
login_nopassword(us, username, password, now) ==
    LET user == get_user_by_username(us, username)
    IN  IF user = NoUser THEN NoLogin
        ELSE Issue(user, now)

login(us, username, password, now) ==
    LET user == get_user_by_username(us, username)
    IN  IF user = NoUser \/ ~pwd_verify(password, user.hashed_password) THEN NoLogin
        ELSE Issue(user, now)

Login(c, u, p) ==
    LET r == login(users, u, p, clock)
    IN  /\ held' = IF r.status = 200
                   THEN [held EXCEPT ![c] =
                           [has |-> TRUE, token |-> r.body.access_token,
                            iss |-> [issued |-> TRUE, uid |-> get_user_by_username(users, u).id,
                                     stale |-> FALSE, iat |-> clock]]]
                   ELSE held
        /\ last' = Response("login", r.status, NoHeader, 0, {}, <<u, p>>, r.body)
        /\ UNCHANGED <<clock, users, entries, budgets, pending>>

(***************************************************************************)
(* GET / and GET /dashboard                                                *)
(***************************************************************************)
Page(route, cred) ==
    /\ last' = Response(route, 200, cred, 0, {}, NoArg, "html")
    /\ UNCHANGED <<clock, users, entries, budgets, held, pending>>

(***************************************************************************)
(* The ledger routes                                                       *)
(***************************************************************************)
\* The owners of the rows that differ between two tables.
Touched(before, after) == {r.user_id : r \in (before \ after) \cup (after \ before)}

create(es, data, current_user) ==
    [status |-> 200, entries |-> crud_create(es, data, current_user.id),
     body |-> NewEntry(es, data, current_user.id)]

Create(cred, data) ==
    LET auth == get_current_user(cred.hdr, clock, users)
    IN  IF ~auth.ok THEN Reject("create", cred, auth, NoArg)
        ELSE LET r == create(entries, data, auth.user)
             IN  /\ Cardinality(entries) < MaxEntries
                 /\ entries' = r.entries
                 /\ last' = Response("create", r.status, cred, auth.user.id,
                                     Touched(entries, r.entries), NoArg, r.body)
                 /\ UNCHANGED <<clock, users, budgets, held, pending>>

get(es, category, current_user) ==
    [status |-> 200, body |-> crud_get(es, current_user.id, category)]

Get(cred, category) ==
    LET auth == get_current_user(cred.hdr, clock, users)
    IN  IF ~auth.ok THEN Reject("get", cred, auth, <<category>>)
        ELSE LET r == get(entries, category, auth.user)
             IN  /\ last' = Response("get", r.status, cred, auth.user.id,
                                     {e.user_id : e \in r.body}, <<category>>, r.body)
                 /\ UNCHANGED <<clock, users, entries, budgets, held, pending>>

\* update without its 404.
update_no404(es, id, data, current_user) ==
    LET updated == crud_update(es, id, data, current_user.id)
    IN  [status |-> 200, entries |-> updated.entries, body |-> "updated"]

update(es, id, data, current_user) ==
    LET updated == crud_update(es, id, data, current_user.id)
    IN  IF ~updated.found
        THEN [status |-> 404, entries |-> updated.entries, body |-> "Record not found"]
        ELSE [status |-> 200, entries |-> updated.entries, body |-> "updated"]

Update(cred, id, data) ==
    LET auth == get_current_user(cred.hdr, clock, users)
    IN  IF ~auth.ok THEN Reject("update", cred, auth, <<id>>)
        ELSE LET r == update(entries, id, data, auth.user)
             IN  /\ entries' = r.entries
                 /\ last' = Response("update", r.status, cred, auth.user.id,
                                     Touched(entries, r.entries), <<id>>, r.body)
                 /\ UNCHANGED <<clock, users, budgets, held, pending>>

delete(es, id, current_user) ==
    LET deleted == crud_delete(es, id, current_user.id)
    IN  IF ~deleted.found
        THEN [status |-> 404, entries |-> deleted.entries, body |-> "Record not found"]
        ELSE [status |-> 200, entries |-> deleted.entries, body |-> "Record deleted successfully"]

Delete(cred, id) ==
    LET auth == get_current_user(cred.hdr, clock, users)
    IN  IF ~auth.ok THEN Reject("delete", cred, auth, <<id>>)
        ELSE LET r == delete(entries, id, auth.user)
             IN  /\ entries' = r.entries
                 /\ last' = Response("delete", r.status, cred, auth.user.id,
                                     Touched(entries, r.entries), <<id>>, r.body)
                 /\ UNCHANGED <<clock, users, budgets, held, pending>>

(***************************************************************************)
(* GET /api/users/me                                                       *)
(***************************************************************************)
ReadUsersMe(cred) ==
    LET auth == get_current_user(cred.hdr, clock, users)
    IN  IF ~auth.ok THEN Reject("users_me", cred, auth, NoArg)
        ELSE /\ last' = Response("users_me", 200, cred, auth.user.id, {}, NoArg,
                                 [id |-> auth.user.id, username |-> auth.user.username])
             /\ UNCHANGED <<clock, users, entries, budgets, held, pending>>

(***************************************************************************)
(* The aggregation routes                                                  *)
(***************************************************************************)
\* get_monthly_summary with month and year exchanged in the call.
get_monthly_summary_swapped(es, month, year, current_user) ==
    [status |-> 200, body |-> crud_get_monthly_summary(es, year, month, current_user.id)]

get_monthly_summary(es, month, year, current_user) ==
    [status |-> 200, body |-> crud_get_monthly_summary(es, month, year, current_user.id)]

get_category_expenses(es, month, year, current_user) ==
    [status |-> 200, body |-> crud_get_category_expenses(es, month, year, current_user.id)]

get_daily_spending(es, month, year, current_user) ==
    [status |-> 200, body |-> crud_get_daily_spending(es, month, year, current_user.id)]

get_yearly_expenses(es, year, current_user) ==
    [status |-> 200, body |-> crud_get_yearly_expenses(es, year, current_user.id)]

\* The owners of the rows a per-user aggregate is computed from.
Read(es, user_id) == {e.user_id : e \in {x \in es : x.user_id = user_id}}

Summary(cred, month, year) ==
    LET auth == get_current_user(cred.hdr, clock, users)
    IN  IF ~auth.ok THEN Reject("summary", cred, auth, <<month, year>>)
        ELSE LET r == get_monthly_summary(entries, month, year, auth.user)
             IN  /\ last' = Response("summary", r.status, cred, auth.user.id,
                                     Read(entries, auth.user.id), <<month, year>>, r.body)
                 /\ UNCHANGED <<clock, users, entries, budgets, held, pending>>

CategoryExpenses(cred, month, year) ==
    LET auth == get_current_user(cred.hdr, clock, users)
    IN  IF ~auth.ok THEN Reject("category_expenses", cred, auth, <<month, year>>)
        ELSE LET r == get_category_expenses(entries, month, year, auth.user)
             IN  /\ last' = Response("category_expenses", r.status, cred, auth.user.id,
                                     Read(entries, auth.user.id), <<month, year>>, r.body)
                 /\ UNCHANGED <<clock, users, entries, budgets, held, pending>>

DailySpending(cred, month, year) ==
    LET auth == get_current_user(cred.hdr, clock, users)
    IN  IF ~auth.ok THEN Reject("daily_spending", cred, auth, <<month, year>>)
        ELSE LET r == get_daily_spending(entries, month, year, auth.user)
             IN  /\ last' = Response("daily_spending", r.status, cred, auth.user.id,
                                     Read(entries, auth.user.id), <<month, year>>, r.body)
                 /\ UNCHANGED <<clock, users, entries, budgets, held, pending>>

YearlyExpenses(cred, year) ==
    LET auth == get_current_user(cred.hdr, clock, users)
    IN  IF ~auth.ok THEN Reject("yearly_expenses", cred, auth, <<year>>)
        ELSE LET r == get_yearly_expenses(entries, year, auth.user)
             IN  /\ last' = Response("yearly_expenses", r.status, cred, auth.user.id,
                                     Read(entries, auth.user.id), <<year>>, r.body)
                 /\ UNCHANGED <<clock, users, entries, budgets, held, pending>>

(***************************************************************************)
(* The budget routes                                                       *)
(***************************************************************************)
create_budget(bs, budget, current_user) ==
    [status |-> 200, budgets |-> crud_create_budget(bs, budget, current_user.id),
     body |-> budget]

CreateBudget(cred, budget) ==
    LET auth == get_current_user(cred.hdr, clock, users)
    IN  IF ~auth.ok THEN Reject("create_budget", cred, auth, <<budget.month, budget.year>>)
        ELSE LET r == create_budget(budgets, budget, auth.user)
             IN  /\ Cardinality(r.budgets) <= MaxBudgets
                 /\ budgets' = r.budgets
                 /\ last' = Response("create_budget", r.status, cred, auth.user.id,
                                     Touched(budgets, r.budgets), <<budget.month, budget.year>>, r.body)
                 /\ UNCHANGED <<clock, users, entries, held, pending>>

get_budget(bs, month, year, current_user) ==
    [status |-> 200, body |-> crud_get_budget(bs, month, year, current_user.id)]

GetBudget(cred, month, year) ==
    LET auth == get_current_user(cred.hdr, clock, users)
    IN  IF ~auth.ok THEN Reject("get_budget", cred, auth, <<month, year>>)
        ELSE LET r == get_budget(budgets, month, year, auth.user)
             IN  /\ last' = Response("get_budget", r.status, cred, auth.user.id,
                                     {b.user_id : b \in r.body}, <<month, year>>, r.body)
                 /\ UNCHANGED <<clock, users, entries, budgets, held, pending>>

(***************************************************************************)
(* GET /api/admin/reset-db-force: no dependency on get_current_user.       *)
(* Every table is dropped and created again, so ids start over; the tokens *)
(* that clients hold stay what they are.                                   *)
(***************************************************************************)
reset_database_force(us, es, bs) ==
    [status |-> 200, users |-> {}, entries |-> {}, budgets |-> {},
     body |-> "Database has been reset successfully. All data deleted. New schema applied."]

Reset(cred) ==
    LET r == reset_database_force(users, entries, budgets)
    IN  /\ users' = r.users
        /\ entries' = r.entries
        /\ budgets' = r.budgets
        /\ held' = [c \in Clients |->
                      IF held[c].has THEN [held[c] EXCEPT !.iss.stale = TRUE] ELSE held[c]]
        /\ last' = Response("reset", r.status, cred, 0,
                            Touched(entries, r.entries) \cup Touched(budgets, r.budgets), NoArg, r.body)
        /\ UNCHANGED <<clock, pending>>

(***************************************************************************)
(* The clock                                                               *)
(***************************************************************************)
Tick(d) ==
    /\ clock + d <= MaxClock
    /\ clock' = clock + d
    /\ UNCHANGED <<users, entries, budgets, held, pending, last>>

(***************************************************************************)
(* Specifications                                                          *)
(***************************************************************************)
Init ==
    /\ clock = 0
    /\ users = {}
    /\ entries = {}
    /\ budgets = {}
    /\ held = [c \in Clients |-> NoHeld]
    /\ pending = {}
    /\ last = NoRequest

\* The ids of PUT and DELETE /ledger/{id}: every id a row can have; an id names
\* no row while the table is not full or after a delete.
EntryIds == 1..MaxEntries

\* The ledger routes that write, and the monthly summary, as one client sends them: with the
\* token it holds, and without a header while it holds none.  The clock stands
\* still here (every request falls within one minute); SpecAuth advances it.
LedgerCreds == IF held["c1"].has THEN {FromClient("c1")} ELSE {NoHeader}

Next ==
    \/ \E u \in Usernames : Register(u, "pw1")
    \/ \E u \in Usernames : Login("c1", u, "pw1")
    \/ \E cred \in LedgerCreds, data \in EntryData : Create(cred, data)
    \/ \E cred \in LedgerCreds, id \in EntryIds, data \in UpdateData : Update(cred, id, data)
    \/ \E cred \in LedgerCreds, id \in EntryIds : Delete(cred, id)
    \/ \E cred \in LedgerCreds, p \in Periods : Summary(cred, p[1], p[2])

Spec == Init /\ [][Next]_vars

\* The list route, the other aggregation routes, the budget routes and the
\* reset route.
NextViews ==
    \/ \E u \in Usernames : Register(u, "pw1")
    \/ \E u \in Usernames : Login("c1", u, "pw1")
    \/ \E cred \in LedgerCreds, data \in EntryData : Create(cred, data)
    \/ \E cred \in LedgerCreds, cat \in CategoryFilters : Get(cred, cat)
    \/ \E cred \in LedgerCreds, p \in Periods : CategoryExpenses(cred, p[1], p[2])
    \/ \E cred \in LedgerCreds, p \in Periods : DailySpending(cred, p[1], p[2])
    \/ \E cred \in LedgerCreds, y \in Years : YearlyExpenses(cred, y)
    \/ \E cred \in LedgerCreds, p \in BudgetPeriods, l \in Limits :
          CreateBudget(cred, [month |-> p[1], year |-> p[2], limit |-> l])
    \/ \E cred \in LedgerCreds, p \in BudgetPeriods : GetBudget(cred, p[1], p[2])
    \/ \E cred \in LedgerCreds : Reset(cred)

SpecViews == Init /\ [][NextViews]_vars

\* Registration, login, token verification and the clock, with the tokens
\* clients hold and everything else anybody can send.
AuthCreds == Honest(Clients) \cup Hostile(Clients)

NextAuth ==
    \/ \E u \in Usernames, p \in Passwords : Register(u, p)
    \/ \E c \in Clients, u \in Usernames, p \in Passwords : Login(c, u, p)
    \/ \E cred \in AuthCreds : ReadUsersMe(cred)
    \/ \E route \in {"read_root", "dashboard"} : Page(route, NoHeader)
    \/ \E cred \in AuthCreds : Reset(cred)
    \/ \E d \in TickSteps : Tick(d)

SpecAuth == Init /\ [][NextAuth]_vars

\* Register requests that overlap.
NextRace ==
    \/ \E rid \in 1..MaxPending, u \in Usernames, p \in Passwords : RegisterCheck(rid, u, p)
    \/ \E r \in pending : RegisterInsert(r)

SpecRace == Init /\ [][NextRace]_vars

(***************************************************************************)
(* Properties                                                              *)
(***************************************************************************)
\* The routes whose handler depends on get_current_user.
ProtectedOps ==
    {"create", "get", "update", "delete", "users_me", "summary", "category_expenses",
     "daily_spending", "yearly_expenses", "create_budget", "get_budget"}

\* Registration, login and page rendering.
PublicOps == {"register", "login", "read_root", "dashboard"}

\* A token that must not authenticate: malformed, a signature that does not
\* verify under the secret, no sub claim, or exp before the clock.
BadToken(t, now) ==
    \/ ~t.wf
    \/ t.sig # <<ALGORITHM, SECRET_KEY, t.sub, t.exp>>
    \/ t.sub = NoSub
    \/ t.exp < now

WasRejected == last.status = 401 /\ last.user = 0 /\ last.owners = {}

\* C1: a request carrying a token issued at login for user A never returns,
\* modifies or deletes a ledger entry or budget owned by a different user B:
\* every row an accepted request touches belongs to the users row the token
\* was issued for, and that row still exists.
C1_CrossUserIsolation ==
    (last.op \in ProtectedOps /\ last.iss.issued /\ last.status = 200)
        => \A o \in last.owners : ~last.iss.stale /\ o = last.iss.uid

\* C2: every route other than registration, login and page rendering answers
\* 401 to a request without a header or with a token that must not
\* authenticate.
C2_TokenRequiredEverywhere ==
    (last.op \notin PublicOps \cup {"none"}
        /\ (~last.hdr.present \/ BadToken(last.hdr.token, last.now)))
        => last.status = 401

\* C3: an expired or tampered token is always rejected: a protected route
\* answers 401 and its handler does not run when the token is malformed, its
\* signature does not verify, it has no sub claim, or its exp is before the
\* clock.
C3_BadTokenRejected ==
    (last.op \in ProtectedOps /\ last.hdr.present /\ BadToken(last.hdr.token, last.now))
        => WasRejected

C3_Witness ==
    /\ last.op = "users_me"
    /\ last.iss.issued
    /\ last.hdr.token.exp < last.now
    /\ last.status = 401

\* A step that is a register request for username u.
RegisterStep(u) == last' # last /\ last'.op = "register" /\ last'.arg[1] = u

\* C4: registering a username that already exists is answered 400, creates no
\* user record and leaves the existing record, its password hash included,
\* unchanged.
C4_DuplicateRegistration ==
    [][\A u \in Usernames :
         ((\E x \in users : x.username = u) /\ RegisterStep(u))
            => (last'.status = 400 /\ users' = users)]_vars

C4_Witness ==
    /\ last.op = "register"
    /\ last.status = 400
    /\ \E x \in users : x.username = last.arg[1] /\ x.hashed_password # pwd_hash(last.arg[2])

\* A step that is an authenticated update or delete of an id that names no
\* row of the requesting user (no row at all, or a row of another user).
NotOwnStep ==
    /\ last' # last
    /\ last'.op \in {"update", "delete"}
    /\ last'.status # 401
    /\ ~\E e \in entries : e.id = last'.arg[1] /\ e.user_id = last'.user

\* C5: updating or deleting an entry id that does not exist or belongs to
\* another user returns 404 with one and the same response, and the Ledger
\* Store is unchanged.
C5_NotFound ==
    [][NotOwnStep =>
         (last'.status = 404 /\ last'.body = "Record not found" /\ entries' = entries)]_vars

C5_Witness ==
    /\ last.op \in {"update", "delete"}
    /\ last.status = 404
    /\ \E e \in entries : e.id = last.arg[1] /\ e.user_id # last.user

\* C6: login issues a token if and only if the username exists and the
\* password verifies against the stored hash; otherwise it answers 401 and
\* issues no token; an issued token carries the username as its sub claim.
C6_Login ==
    last.op = "login" =>
        LET known == \E x \in users : /\ x.username = last.arg[1]
                                      /\ pwd_verify(last.arg[2], x.hashed_password)
        IN  /\ last.status = 200 <=> known
            /\ last.status # 200 => (last.status = 401 /\ last.body = "Incorrect username or password")
            /\ last.status = 200 =>
                  /\ last.body.access_token.sub = last.arg[1]
                  /\ ~BadToken(last.body.access_token, last.now)

C6_Witness ==
    /\ last.op = "login"
    /\ last.status = 401
    /\ \E x \in users : x.username = last.arg[1]

\* C7: a validly signed, unexpired token issued at login is rejected on every
\* protected route when its identity no longer resolves to a user, and it
\* authenticates only as the user record it was issued for.
C7_OnlyItsOwnRecord ==
    (last.op \in ProtectedOps /\ last.iss.issued /\ ~BadToken(last.hdr.token, last.now))
        => /\ (~\E x \in users : x.username = last.hdr.token.sub) => WasRejected
           /\ last.status = 200 => (~last.iss.stale /\ last.user = last.iss.uid)

\* C8: every token the system issues expires 30 minutes after its issue time:
\* exp is the issue time plus 30, and no request is accepted with it later.
C8_ThirtyMinutes ==
    /\ \A c \in Clients : held[c].has => held[c].token.exp = held[c].iss.iat + 30
    /\ (last.op = "login" /\ last.status = 200) => last.body.access_token.exp = last.now + 30
    /\ (last.op \in ProtectedOps /\ last.iss.issued /\ last.status = 200)
          => last.now <= last.iss.iat + 30

C8_Witness ==
    /\ last.op = "users_me"
    /\ last.iss.issued
    /\ last.status = 200
    /\ last.now = last.iss.iat + 30

\* The sum of the positive (sign = 1) or negative (sign = -1) amounts of rows,
\* as absolute values, by descending id.
RECURSIVE Total(_, _)
Total(rows, sign) ==
    IF rows = {} THEN 0
    ELSE LET top == CHOOSE r \in rows : \A x \in rows : x.id <= r.id
         IN  (IF top.amount * sign > 0 THEN top.amount * sign ELSE 0) + Total(rows \ {top}, sign)

\* C9: the monthly summary reports the total income and the total expense of
\* exactly the requesting user's entries of that month and year, and net as
\* their difference; with no such entry all three are zero, with status 200.
C9_MonthlySummary ==
    last.op = "summary" /\ last.status # 401 =>
        LET rows == {e \in entries : /\ e.user_id = last.user
                                     /\ e.month = last.arg[1]
                                     /\ e.year = last.arg[2]}
        IN  /\ last.status = 200
            /\ last.body.income = Total(rows, 1)
            /\ last.body.expense = Total(rows, -1)
            /\ last.body.net = last.body.income - last.body.expense
            /\ rows = {} => last.body = [income |-> 0, expense |-> 0, net |-> 0]

\* The example of spec.md section 8, with nothing else in the table.
C9_Witness ==
    /\ last.op = "summary"
    /\ last.status = 200
    /\ last.arg = <<1, 2024>>
    /\ last.body = [income |-> 100, expense |-> 20, net |-> 80]

====
